---- MODULE Spec2Model ----
(***************************************************************************)
(* SDMX-REST data query builder (pysdmx.api.qb.data.DataQuery).            *)
(*                                                                         *)
(* A DataQuery is a frozen record; get_url(version, omit_defaults) first   *)
(* validates it against the API version and then renders it as a URL,      *)
(* either in full or with the defaults omitted.                            *)
(*                                                                         *)
(* Representation.                                                         *)
(*  - A field of type Union[str, Sequence[str]] is a record                *)
(*    [list, vals]: Str(s) is the plain string s, Lst(<<..>>) a list.     *)
(*  - An Optional value is a sequence of length at most one (<<>> is None).*)
(*  - A URL is the sequence of its tokens: the separators "/", ",", "?",   *)
(*    "&", "=" are tokens of their own, every identifier or keyword is one *)
(*    token.  Concatenation of strings is concatenation of sequences.      *)
(*  - A raised ClientError(code, title, msg) is a result with ok = FALSE;  *)
(*    msg keeps the constant part of the message.                          *)
(*  - attributes, measures and obs_dimension are drawn from well-formed    *)
(*    identifiers; DataQuery.components is read by no method and is left   *)
(*    out of the record.                                                   *)
(***************************************************************************)
EXTENDS Integers, Sequences, FiniteSets, TLC

VARIABLES
    query,   \* the DataQuery under consideration (frozen once constructed)
    pc,      \* "ready", or the method that has just been called
    args,    \* <<version, omit_defaults>> of the get_url call, else <<>>
    result   \* what the call returned or raised

vars == <<query, pc, args, result>>

(***************************************************************************)
(* pysdmx.api.qb.util                                                      *)
(***************************************************************************)
REST_ALL == "*"

REST_LATEST == "~"

\* ApiVersion: an ordered enumeration, compared by ordinal.
V1_0_0 == 0

V1_5_0 == 1

V2_0_0 == 2

V2_1_0 == 3

ApiVersion == {V1_0_0, V1_5_0, V2_0_0, V2_1_0}

(***************************************************************************)
(* Values                                                                  *)
(***************************************************************************)
Str(s) == [list |-> FALSE, vals |-> <<s>>]

Lst(seq) == [list |-> TRUE, vals |-> seq]

None == <<>>

Some(x) == <<x>>

\* Python truthiness of an Optional[int]: None and 0 are false
TruthyInt(opt) == opt # None /\ opt[1] # 0

\* Python truthiness of an Optional[datetime]: only None is false
TruthyDate(opt) == opt # None

\* Python truthiness of an Optional[str]: None and "" are false
TruthyStr(opt) == opt # None /\ opt[1] # ""

\* str.join
RECURSIVE Join(_, _)
Join(parts, sep) ==
    IF parts = <<>> THEN <<>>
    ELSE IF Len(parts) = 1 THEN parts[1]
    ELSE parts[1] \o sep \o Join(Tail(parts), sep)

\* str(x) of a Union[str, Sequence[str]] inside an f-string
PyStr(val) ==
    IF ~val.list THEN val.vals
    ELSE <<"[">>
         \o Join([i \in 1..Len(val.vals) |-> <<"'", val.vals[i], "'">>],
                 <<",", " ">>)
         \o <<"]">>

\* str(b).lower()
BoolLower(b) == IF b THEN "true" ELSE "false"

DataContext == {"datastructure", "dataflow", "provisionagreement", REST_ALL}

DATA_STRUCTURE == "datastructure"

DATAFLOW == "dataflow"

PROVISION_AGREEMENT == "provisionagreement"

ALL == REST_ALL

\* DataQuery() with every field at its default
DefaultQuery ==
    [context |-> ALL,
     agency_id |-> Str(REST_ALL),
     resource_id |-> Str(REST_ALL),
     version |-> Str(REST_ALL),
     key |-> Str(REST_ALL),
     updated_after |-> None,
     first_n_obs |-> None,
     last_n_obs |-> None,
     obs_dimension |-> None,
     attributes |-> Str("dsd"),
     measures |-> Str("all"),
     include_history |-> FALSE]

(***************************************************************************)
(* Results                                                                 *)
(***************************************************************************)
Ok(url) == [ok |-> TRUE, url |-> url, code |-> 0, title |-> "", msg |-> ""]

ClientError(code, title, msg) ==
    [ok |-> FALSE, url |-> <<>>, code |-> code, title |-> title, msg |-> msg]

\* validate() returns None
Returned == [ok |-> TRUE, url |-> <<>>, code |-> 0, title |-> "", msg |-> ""]

(***************************************************************************)
(* Validation                                                              *)
(***************************************************************************)
\* The decoder's constraints on the encoded record: Meta(gt=0) on
\* first_n_obs and last_n_obs (None is omitted by the encoder).
SchemaAccepts(q) ==
    /\ (q.first_n_obs # None => q.first_n_obs[1] > 0)
    /\ (q.last_n_obs # None => q.last_n_obs[1] > 0)

validate(q) ==
    IF SchemaAccepts(q) THEN Returned
    ELSE ClientError(422, "Invalid Schema Query", "decode error")

\* A variant that lets the provision agreement through before v2.0.0
validate_context_ds_only(q, ver) ==
    IF ver < V2_0_0 /\ q.context \in {DATA_STRUCTURE}
    THEN ClientError(422, "Validation Error",
                     "context is not valid for SDMX-REST")
    ELSE Returned

validate_context(q, ver) ==
    IF ver < V2_0_0 /\ q.context \in {DATA_STRUCTURE, PROVISION_AGREEMENT}
    THEN ClientError(422, "Validation Error",
                     "context is not valid for SDMX-REST")
    ELSE Returned

\* pysdmx.api.qb.util.check_multiple_data_context
check_multiple_data_context(field, value, ver) ==
    IF value.list /\ ver < V2_0_0
    THEN ClientError(422, "Validation Error",
                     "More than one " \o field \o " is not supported")
    ELSE Returned

\* The first of the results that is an error, or the last result.
RECURSIVE FirstError(_)
FirstError(rs) ==
    IF Len(rs) = 1 \/ ~rs[1].ok THEN rs[1] ELSE FirstError(Tail(rs))

\* A variant that does not check the key
check_multiple_contexts_no_key(q, ver) ==
    FirstError(<<check_multiple_data_context("agency", q.agency_id, ver),
                 check_multiple_data_context("resource", q.resource_id, ver),
                 check_multiple_data_context("version", q.version, ver)>>)

check_multiple_contexts(q, ver) ==
    FirstError(<<check_multiple_data_context("agency", q.agency_id, ver),
                 check_multiple_data_context("resource", q.resource_id, ver),
                 check_multiple_data_context("version", q.version, ver),
                 check_multiple_data_context("key", q.key, ver)>>)

\* A variant that asks for a dataflow up to and including v2.0.0
check_resource_id_incl_v2(q, ver) ==
    IF ver <= V2_0_0 /\ q.resource_id = Str(REST_ALL)
    THEN ClientError(422, "Validation Error",
                     "A dataflow must be provided in SDMX-REST")
    ELSE Returned

\* A variant that never asks for a dataflow
check_resource_id_never(q, ver) == Returned

check_resource_id(q, ver) ==
    IF ver < V2_0_0 /\ q.resource_id = Str(REST_ALL)
    THEN ClientError(422, "Validation Error",
                     "A dataflow must be provided in SDMX-REST")
    ELSE Returned

\* A variant that does not ask for a dataflow
validate_query_no_resource(q, ver) ==
    FirstError(<<validate(q),
                 validate_context(q, ver),
                 check_multiple_contexts(q, ver)>>)

validate_query(q, ver) ==
    FirstError(<<validate(q),
                 validate_context(q, ver),
                 check_multiple_contexts(q, ver),
                 check_resource_id(q, ver)>>)

(***************************************************************************)
(* Rendering                                                               *)
(***************************************************************************)
\* __to_kw on one string
Kw(s, ver) ==
    IF s = "*" /\ ver < V2_0_0 THEN "all"
    ELSE IF s = "~" /\ ver < V2_0_0 THEN "latest"
    ELSE s

\* __to_kw as the f-strings use it: a list compares unequal to "*" and "~",
\* is returned as it is and formatted by str().
to_kw(val, ver) ==
    IF val.list THEN PyStr(val) ELSE <<Kw(val.vals[1], ver)>>

to_kws(vals, ver) ==
    Join([i \in 1..Len(vals.vals) |-> <<Kw(vals.vals[i], ver)>>], <<",">>)

get_v2_context_id(q, ver) ==
    <<"/", q.context>>
    \o <<"/">> \o to_kws(q.agency_id, ver)
    \o <<"/">> \o to_kws(q.resource_id, ver)
    \o <<"/">> \o to_kws(q.version, ver)

\* A variant that separates agency, resource and version by "/"
get_v1_context_id_slashes(q, ver) ==
    LET a == to_kw(q.agency_id, ver)
        r == to_kw(q.resource_id, ver)
        v == IF q.version # Str(REST_ALL) THEN to_kw(q.version, ver)
             ELSE <<"latest">>
    IN  <<"/">> \o a \o <<"/">> \o r \o <<"/">> \o v

get_v1_context_id(q, ver) ==
    LET a == to_kw(q.agency_id, ver)
        r == to_kw(q.resource_id, ver)
        v == IF q.version # Str(REST_ALL) THEN to_kw(q.version, ver)
             ELSE <<"latest">>
    IN  <<"/">> \o a \o <<",">> \o r \o <<",">> \o v

\* A variant whose version segment forgets that a key follows
get_short_v2_path_gap(q, ver) ==
    LET k == IF q.key # Str(REST_ALL) THEN <<"/">> \o to_kws(q.key, ver)
             ELSE <<>>
        v == IF q.version # Str(REST_ALL)
             THEN <<"/">> \o to_kws(q.version, ver) \o k ELSE k
        r == IF v # <<>> \/ q.resource_id # Str(REST_ALL)
             THEN <<"/">> \o to_kws(q.resource_id, ver) \o v ELSE <<>>
        a == IF r # <<>> \/ q.agency_id # Str(REST_ALL)
             THEN <<"/">> \o to_kws(q.agency_id, ver) \o r ELSE <<>>
        c == IF a # <<>> \/ q.context # ALL
             THEN <<"/", q.context>> \o a ELSE <<>>
    IN  <<"/", "data">> \o c

get_short_v2_path(q, ver) ==
    LET k == IF q.key # Str(REST_ALL) THEN <<"/">> \o to_kws(q.key, ver)
             ELSE <<>>
        v == IF k # <<>> \/ q.version # Str(REST_ALL)
             THEN <<"/">> \o to_kws(q.version, ver) \o k ELSE <<>>
        r == IF v # <<>> \/ q.resource_id # Str(REST_ALL)
             THEN <<"/">> \o to_kws(q.resource_id, ver) \o v ELSE <<>>
        a == IF r # <<>> \/ q.agency_id # Str(REST_ALL)
             THEN <<"/">> \o to_kws(q.agency_id, ver) \o r ELSE <<>>
        c == IF a # <<>> \/ q.context # ALL
             THEN <<"/", q.context>> \o a ELSE <<>>
    IN  <<"/", "data">> \o c

\* qs += "&" when qs is not empty
Amp(qs) == IF qs # <<>> THEN qs \o <<"&">> ELSE qs

\* datetime.isoformat("T", "seconds"): the microseconds are dropped
IsoSeconds(dt) == dt.seconds

\* The four filters every query string starts with, in the code's order:
\* updatedAfter, firstNObservations, lastNObservations,
\* dimensionAtObservation.
FilterParams(q) ==
    LET q1 == IF TruthyDate(q.updated_after)
              THEN <<"updatedAfter", "=", IsoSeconds(q.updated_after[1])>>
              ELSE <<>>
        q2 == IF TruthyInt(q.first_n_obs)
              THEN Amp(q1) \o <<"firstNObservations", "=",
                                ToString(q.first_n_obs[1])>>
              ELSE q1
        q3 == IF TruthyInt(q.last_n_obs)
              THEN Amp(q2) \o <<"lastNObservations", "=",
                                ToString(q.last_n_obs[1])>>
              ELSE q2
        q4 == IF TruthyStr(q.obs_dimension)
              THEN Amp(q3) \o <<"dimensionAtObservation", "=",
                                q.obs_dimension[1]>>
              ELSE q3
    IN  q4

\* A variant that takes all, the default of measures, for the default of
\* attributes as well
get_short_v2_qs_all(q, ver) ==
    LET q4 == FilterParams(q)
        q5 == IF q.attributes # Str("all")
              THEN Amp(q4) \o <<"attributes", "=">> \o to_kws(q.attributes, ver)
              ELSE q4
        q6 == IF q.measures # Str("all")
              THEN Amp(q5) \o <<"measures", "=">> \o to_kws(q.measures, ver)
              ELSE q5
        q7 == IF q.include_history
              THEN Amp(q6) \o <<"includeHistory", "=",
                                BoolLower(q.include_history)>>
              ELSE q6
    IN  IF q7 # <<>> THEN <<"?">> \o q7 ELSE <<>>

get_short_v2_qs(q, ver) ==
    LET q4 == FilterParams(q)
        q5 == IF q.attributes # Str("dsd")
              THEN Amp(q4) \o <<"attributes", "=">> \o to_kws(q.attributes, ver)
              ELSE q4
        q6 == IF q.measures # Str("all")
              THEN Amp(q5) \o <<"measures", "=">> \o to_kws(q.measures, ver)
              ELSE q5
        q7 == IF q.include_history
              THEN Amp(q6) \o <<"includeHistory", "=",
                                BoolLower(q.include_history)>>
              ELSE q6
    IN  IF q7 # <<>> THEN <<"?">> \o q7 ELSE <<>>

\* A variant that knows the measure all but not the measure OBS_VALUE
get_v1_detail_all_only(q, ver) ==
    IF q.measures = Str("all") /\ q.attributes = Str("dsd")
    THEN [raised |-> FALSE, value |-> "full"]
    ELSE IF q.measures = Str("all") /\ q.attributes = Str("none")
    THEN [raised |-> FALSE, value |-> "dataonly"]
    ELSE IF q.measures = Str("none") /\ q.attributes = Str("series")
    THEN [raised |-> FALSE, value |-> "serieskeysonly"]
    ELSE IF q.measures = Str("none") /\ q.attributes = Str("dsd")
    THEN [raised |-> FALSE, value |-> "nodata"]
    ELSE [raised |-> TRUE, value |-> ""]

\* The detail of a pre-v2 query: [raised, value], raised when the
\* combination of attributes and measures has no detail.
get_v1_detail(q, ver) ==
    LET m_all == q.measures \in {Str("OBS_VALUE"), Str("all")}
    IN  IF m_all /\ q.attributes = Str("dsd")
        THEN [raised |-> FALSE, value |-> "full"]
        ELSE IF m_all /\ q.attributes = Str("none")
        THEN [raised |-> FALSE, value |-> "dataonly"]
        ELSE IF q.measures = Str("none") /\ q.attributes = Str("series")
        THEN [raised |-> FALSE, value |-> "serieskeysonly"]
        ELSE IF q.measures = Str("none") /\ q.attributes = Str("dsd")
        THEN [raised |-> FALSE, value |-> "nodata"]
        ELSE [raised |-> TRUE, value |-> ""]

DetailError ==
    ClientError(422, "Validation Error",
                "not a valid combination for the detail attribute")

\* A variant that leaves the detail out when the combination has none
get_short_v1_qs_silent(q, ver) ==
    LET q4 == FilterParams(q)
        detail == get_v1_detail(q, ver)
        q5 == IF ~detail.raised /\ detail.value # "full"
              THEN Amp(q4) \o <<"detail", "=", detail.value>>
              ELSE q4
        q6 == IF q.include_history
              THEN Amp(q5) \o <<"includeHistory", "=",
                                BoolLower(q.include_history)>>
              ELSE q5
    IN  Ok(IF q6 # <<>> THEN <<"?">> \o q6 ELSE <<>>)

get_short_v1_qs(q, ver) ==
    LET q4 == FilterParams(q)
        detail == get_v1_detail(q, ver)
        q5 == IF detail.value # "full"
              THEN Amp(q4) \o <<"detail", "=", detail.value>>
              ELSE q4
        q6 == IF q.include_history
              THEN Amp(q5) \o <<"includeHistory", "=",
                                BoolLower(q.include_history)>>
              ELSE q5
    IN  IF detail.raised THEN DetailError
        ELSE Ok(IF q6 # <<>> THEN <<"?">> \o q6 ELSE <<>>)

get_short_v1_path(q, ver) ==
    LET v == IF q.version # Str(REST_ALL)
             THEN <<",">> \o to_kw(q.version, ver) ELSE <<>>
        r == IF v # <<>> \/ q.resource_id # Str(REST_ALL)
             THEN to_kw(q.resource_id, ver) \o v ELSE <<>>
        a == IF q.agency_id # Str(REST_ALL) \/ q.version # Str(REST_ALL)
             THEN to_kw(q.agency_id, ver) \o <<",">> \o r
             ELSE r
        k == IF q.key # Str(REST_ALL) THEN <<"/">> \o PyStr(q.key) ELSE <<>>
    IN  IF a # <<>> THEN <<"/", "data", "/">> \o a \o k
        ELSE IF k # <<>>
        THEN <<"/", "data", "/", "all", ",", "all", ",", "latest">> \o k
        ELSE <<>>

create_full_query(q, ver) ==
    LET c == IF ver >= V2_0_0 THEN get_v2_context_id(q, ver)
             ELSE get_v1_context_id(q, ver)
        o == <<"/", "data">> \o c \o <<"/">> \o to_kws(q.key, ver) \o <<"?">>
        q4 == FilterParams(q)
        detail == get_v1_detail(q, ver)
        qs == IF ver >= V2_0_0
              THEN Amp(q4) \o <<"attributes", "=">> \o to_kws(q.attributes, ver)
                   \o <<"&", "measures", "=">> \o to_kws(q.measures, ver)
              ELSE Amp(q4) \o <<"detail", "=", detail.value>>
    IN  IF ver < V2_0_0 /\ detail.raised THEN DetailError
        ELSE Ok(o \o qs \o <<"&", "includeHistory", "=",
                              BoolLower(q.include_history)>>)

create_short_query(q, ver) ==
    IF ver >= V2_0_0
    THEN Ok(get_short_v2_path(q, ver) \o get_short_v2_qs(q, ver))
    ELSE LET p == get_short_v1_path(q, ver)
             qq == get_short_v1_qs(q, ver)
         IN  IF qq.ok THEN Ok(p \o qq.url) ELSE qq

get_url(q, ver, omit) ==
    LET checked == validate_query(q, ver)
    IN  IF ~checked.ok THEN checked
        ELSE IF omit THEN create_short_query(q, ver)
        ELSE create_full_query(q, ver)

(***************************************************************************)
(* The queries considered                                                  *)
(***************************************************************************)
\* Longest list given for agency_id, resource_id, version, key,
\* attributes or measures.
MaxListLen == 2

\* Most fields of a query that differ from their default.
MaxNonDefault == 5

ListOf(pool) == Lst(SubSeq(pool, 1, MaxListLen))

AgencyValues ==
    {Str(REST_ALL), Str(REST_LATEST), Str("BIS"),
     ListOf(<<"BIS", "ECB", "IMF", "SDMX">>)}

ResourceValues ==
    {Str(REST_ALL), Str(REST_LATEST), Str("CPI"),
     ListOf(<<"CPI", "GDP", "EXR", "BOP">>)}

VersionValues ==
    {Str(REST_ALL), Str(REST_LATEST), Str("1.0"),
     ListOf(<<"1.0", "2.0", "3.0", "4.0">>)}

KeyValues ==
    {Str(REST_ALL), Str(REST_LATEST), Str("A.USD"),
     ListOf(<<"A.USD", "M.EUR", "Q.CHF", "D.JPY">>)}

AttributeValues ==
    {Str("dsd"), Str("none"), Str("series"), Str("msd"),
     ListOf(<<"CONF", "UNIT", "DECIMALS", "TITLE">>)}

MeasureValues ==
    {Str("all"), Str("none"), Str("OBS_VALUE"),
     ListOf(<<"TURNOVER", "OPEN_INTEREST", "PRICE", "VOLUME">>)}

DateValues ==
    {None, Some([seconds |-> "2024-01-01T10:00:00", microsecond |-> 500])}

AllQueries ==
    [context : DataContext,
     agency_id : AgencyValues,
     resource_id : ResourceValues,
     version : VersionValues,
     key : KeyValues,
     updated_after : DateValues,
     first_n_obs : {None, Some(0), Some(3)},
     last_n_obs : {None, Some(0), Some(2)},
     obs_dimension : {None, Some("TIME_PERIOD")},
     attributes : AttributeValues,
     measures : MeasureValues,
     include_history : BOOLEAN]

NonDefault(q) == {f \in DOMAIN DefaultQuery : q[f] # DefaultQuery[f]}

Queries == {q \in AllQueries : Cardinality(NonDefault(q)) <= MaxNonDefault}

(***************************************************************************)
(* The state machine                                                       *)
(***************************************************************************)
Init ==
    /\ query \in Queries
    /\ pc = "ready"
    /\ args = <<>>
    /\ result = Returned

\* DataQuery.get_url(version, omit_defaults)
GetUrl(ver, omit) ==
    /\ pc = "ready"
    /\ pc' = "get_url"
    /\ args' = <<ver, omit>>
    /\ result' = get_url(query, ver, omit)
    /\ UNCHANGED query

\* DataQuery.validate()
Validate ==
    /\ pc = "ready"
    /\ pc' = "validate"
    /\ args' = <<>>
    /\ result' = validate(query)
    /\ UNCHANGED query

\* The caller has taken the result; the query itself is immutable.
Done ==
    /\ pc # "ready"
    /\ pc' = "ready"
    /\ args' = <<>>
    /\ result' = Returned
    /\ UNCHANGED query

Next ==
    \/ \E ver \in ApiVersion : \E omit \in BOOLEAN : GetUrl(ver, omit)
    \/ Validate
    \/ Done

Spec == Init /\ [][Next]_vars

\* The get_url call a state is the outcome of
Called == pc = "get_url"

Ver == args[1]

Omit == args[2]

TypeOK ==
    /\ query \in Queries
    /\ pc \in {"ready", "get_url", "validate"}
    /\ result.ok \in BOOLEAN

(***************************************************************************)
(* Reading a URL back                                                      *)
(***************************************************************************)
\* The pieces of a token sequence between the occurrences of sep
RECURSIVE SplitOn(_, _)
SplitOn(s, sep) ==
    IF s = <<>> THEN << <<>> >>
    ELSE LET rest == SplitOn(Tail(s), sep)
         IN  IF Head(s) = sep THEN << <<>> >> \o rest
             ELSE << <<Head(s)>> \o rest[1] >> \o Tail(rest)

PathOf(url) == SplitOn(url, "?")[1]

QueryStringOf(url) ==
    LET parts == SplitOn(url, "?")
    IN  IF Len(parts) > 1 THEN parts[2] ELSE <<>>

\* The path segments of a URL: "/data/a,b/c" is <<data, "a,b", c>>
PathSegments(url) == Tail(SplitOn(PathOf(url), "/"))

\* The name=value parameters of a URL, in order
ParamsOf(url) ==
    IF QueryStringOf(url) = <<>> THEN <<>>
    ELSE SplitOn(QueryStringOf(url), "&")

\* On the parameters ps of a URL: the names in order, whether a name is
\* among them, and the value given for a name that is (the tokens after
\* the name and "=")
ParamNames(ps) == [i \in 1..Len(ps) |-> ps[i][1]]

HasParam(ps, name) == \E i \in 1..Len(ps) : ps[i][1] = name

ParamValue(ps, name) ==
    LET i == CHOOSE j \in 1..Len(ps) : ps[j][1] = name
    IN  SubSeq(ps[i], 3, Len(ps[i]))

\* The values of a field joined by commas, as written
CommaJoined(val) ==
    Join([i \in 1..Len(val.vals) |-> <<val.vals[i]>>], <<",">>)

IsWildcard(val) == val \in {Str(REST_ALL), Str(REST_LATEST)}

PreV2 == Ver < V2_0_0

Full == Called /\ ~Omit /\ result.ok

Short == Called /\ Omit /\ result.ok

Raised422 == ~result.ok /\ result.code = 422

(***************************************************************************)
(* C1: a full URL of v2.0.0 or later has the path                          *)
(* /data/{context}/{agency}/{resource}/{version}/{key}, the context kind   *)
(* being a segment of its own; a full URL before v2.0.0 has no context     *)
(* segment and the path /data/{agency},{resource},{version}/{key}, with    *)
(* agency, resource and version joined by commas in one segment.           *)
(***************************************************************************)
\* C1: the path of a full URL, by version.
C1_FullPathShape ==
    Full =>
        LET segs == PathSegments(result.url)
        IN  IF ~PreV2
            THEN /\ Len(segs) = 6
                 /\ segs[1] = <<"data">>
                 /\ segs[2] = <<query.context>>
                 /\ segs[3] = CommaJoined(query.agency_id)
                 /\ segs[4] = CommaJoined(query.resource_id)
                 /\ segs[5] = CommaJoined(query.version)
                 /\ segs[6] = CommaJoined(query.key)
            ELSE /\ Len(segs) = 3
                 /\ segs[1] = <<"data">>
                 /\ Len(segs[2]) = 5
                 /\ segs[2][2] = "," /\ segs[2][4] = ","
                 /\ \A i \in {1, 3, 5} : segs[2][i] \notin {"/", ",", "?"}
                 /\ (~IsWildcard(query.agency_id)
                        => segs[2][1] = query.agency_id.vals[1])
                 /\ (~IsWildcard(query.resource_id)
                        => segs[2][3] = query.resource_id.vals[1])
                 /\ (~IsWildcard(query.version)
                        => segs[2][5] = query.version.vals[1])
                 /\ Len(segs[3]) = 1
                 /\ (~IsWildcard(query.key) => segs[3] = query.key.vals)

\* The v2.0.0 example of the specification
C1_Witness ==
    /\ Full /\ Ver = V2_0_0
    /\ query.context = DATAFLOW
    /\ result.url = <<"/", "data", "/", "dataflow", "/", "BIS", "/", "CPI",
                      "/", "1.0", "/", "A.USD", "?", "attributes", "=", "dsd",
                      "&", "measures", "=", "all",
                      "&", "includeHistory", "=", "false">>

(***************************************************************************)
(* C2: the short URL and the full URL of a query denote the same query:    *)
(* the short URL with every omitted path segment and every omitted         *)
(* parameter filled in with its default for the version has the segment    *)
(* values and parameter values of the full URL.                            *)
(***************************************************************************)
PadTo(segs, n, dflt) ==
    segs \o [i \in 1..(n - Len(segs)) |-> dflt]

\* v2: /data/{context}/{agency}/{resource}/{version}/{key}, each "*" when
\* left out
ResolveV2Path(url) ==
    LET segs == PathSegments(url)
    IN  PadTo(IF segs = <<>> THEN <<>> ELSE Tail(segs), 5, <<REST_ALL>>)

\* pre-v2: /data/{flow}/{key} with flow one of "resource",
\* "agency,resource", "agency,resource,version"; the agency is all, the
\* version latest and the key all when left out
ResolveV1Path(url) ==
    LET segs == IF PathSegments(url) = <<>> THEN <<>>
                ELSE Tail(PathSegments(url))
        flow == IF segs = <<>> THEN <<>> ELSE SplitOn(segs[1], ",")
        ctx == IF Len(flow) = 0
               THEN << <<"all">>, <<"all">>, <<"latest">> >>
               ELSE IF Len(flow) = 1
               THEN << <<"all">>, flow[1], <<"latest">> >>
               ELSE IF Len(flow) = 2
               THEN << flow[1], flow[2], <<"latest">> >>
               ELSE flow
        key == IF Len(segs) >= 2 THEN segs[2] ELSE <<"all">>
    IN  ctx \o <<key>>

DefaultParams(ver) ==
    IF ver >= V2_0_0
    THEN {<<"attributes", <<"dsd">>>>, <<"measures", <<"all">>>>,
          <<"includeHistory", <<"false">>>>}
    ELSE {<<"detail", <<"full">>>>, <<"includeHistory", <<"false">>>>}

ResolveParams(url, ver) ==
    LET ps == ParamsOf(url)
        given == {<<ps[i][1], SubSeq(ps[i], 3, Len(ps[i]))>> : i \in 1..Len(ps)}
    IN  given \cup {d \in DefaultParams(ver) : ~HasParam(ps, d[1])}

Resolve(url, ver) ==
    [path |-> IF ver >= V2_0_0 THEN ResolveV2Path(url) ELSE ResolveV1Path(url),
     params |-> ResolveParams(url, ver)]

\* C2: a short URL, resolved, is the full URL of the same query, resolved.
C2_ShortDenotesFull ==
    Short =>
        LET full == get_url(query, Ver, FALSE)
        IN  /\ full.ok
            /\ Resolve(result.url, Ver) = Resolve(full.url, Ver)

(***************************************************************************)
(* C3: the detail parameter of a full pre-v2 URL.                          *)
(***************************************************************************)
DetailOf(a, m, all_measures) ==
    IF a = Str("dsd") /\ m \in all_measures THEN "full"
    ELSE IF a = Str("none") /\ m \in all_measures THEN "dataonly"
    ELSE IF a = Str("series") /\ m = Str("none") THEN "serieskeysonly"
    ELSE IF a = Str("dsd") /\ m = Str("none") THEN "nodata"
    ELSE ""

DetailAsTabled(all_measures) ==
    (Called /\ ~Omit /\ PreV2 /\ validate_query(query, Ver).ok) =>
        LET expected == DetailOf(query.attributes, query.measures, all_measures)
        IN  IF expected # ""
            THEN /\ result.ok
                 /\ HasParam(ParamsOf(result.url), "detail")
                 /\ ParamValue(ParamsOf(result.url), "detail") = <<expected>>
            ELSE Raised422 /\ result.url = <<>>

\* C3 as stated: a full pre-v2 query has a detail for exactly the four
\* pairs (dsd, all) -> full, (none, all) -> dataonly, (series, none) ->
\* serieskeysonly, (dsd, none) -> nodata; any other pair raises 422.
C3_Original == DetailAsTabled({Str("all")})

\* C3 as amended: the measure OBS_VALUE counts as all, so (dsd, OBS_VALUE)
\* gives full and (none, OBS_VALUE) gives dataonly besides the four pairs;
\* every other pair raises 422 and no URL is returned.
C3_Amended == DetailAsTabled({Str("all"), Str("OBS_VALUE")})

C3_Witness ==
    /\ Full /\ PreV2
    /\ query.attributes = Str("none") /\ query.measures = Str("OBS_VALUE")
    /\ ParamValue(ParamsOf(result.url), "detail") = <<"dataonly">>

(***************************************************************************)
(* C4: before v2.0.0 a query with a list for agency_id, resource_id,       *)
(* version or key makes get_url raise 422, in full and in short mode,      *)
(* whatever the other fields are; from v2.0.0 on the lists are accepted    *)
(* and rendered as the comma-joined values of their path segment.          *)
(***************************************************************************)
ListFields(q) ==
    {f \in {"agency_id", "resource_id", "version", "key"} : q[f].list}

\* The position of a field's segment in a v2 path, after "data"
SegmentOf(f) ==
    CASE f = "context" -> 2
      [] f = "agency_id" -> 3
      [] f = "resource_id" -> 4
      [] f = "version" -> 5
      [] f = "key" -> 6

\* C4: a list raises 422 before v2.0.0 and is a comma-joined segment after.
C4_ListsOnlyFromV2 ==
    (Called /\ ListFields(query) # {}) =>
        IF PreV2 THEN Raised422
        ELSE /\ (validate(query).ok => result.ok)
             /\ (result.ok =>
                    \A f \in ListFields(query) :
                        /\ Len(PathSegments(result.url)) >= SegmentOf(f)
                        /\ PathSegments(result.url)[SegmentOf(f)]
                              = CommaJoined(query[f]))

C4_Witness ==
    /\ Short /\ Ver = V2_1_0
    /\ query.agency_id.list /\ query.key.list
    /\ PathSegments(result.url)[3] = <<"BIS", ",", "ECB">>

(***************************************************************************)
(* C5: the validation that get_url runs accepts the default query.         *)
(***************************************************************************)
\* C5 as stated: validating DataQuery() never raises, for any ApiVersion.
C5_Original ==
    (Called /\ query = DefaultQuery) =>
        validate_query(query, Ver).ok /\ result.ok

\* C5 as amended: DataQuery() passes validate(), the schema check, and the
\* validation of get_url for every version from v2.0.0 on; before v2.0.0
\* get_url rejects it with 422 because its resource_id is the wildcard.
C5_Amended ==
    /\ (pc = "validate" /\ query = DefaultQuery) => result.ok
    /\ (Called /\ query = DefaultQuery) =>
          IF PreV2
          THEN /\ Raised422
               /\ result.msg = "A dataflow must be provided in SDMX-REST"
          ELSE validate_query(query, Ver).ok /\ result.ok

C5_Witness ==
    /\ Called /\ query = DefaultQuery /\ Ver = V2_0_0 /\ ~Omit
    /\ result.ok /\ PathSegments(result.url)[4] = <<REST_ALL>>

(***************************************************************************)
(* C6: before v2.0.0 get_url on a query whose resource_id is the wildcard  *)
(* raises 422, whatever omit_defaults and the other fields are; from       *)
(* v2.0.0 on a wildcard resource_id alone causes no error.                 *)
(***************************************************************************)
\* C6: a wildcard resource_id raises 422 before v2.0.0 and nothing after.
C6_DataflowMandatoryBeforeV2 ==
    (Called /\ query.resource_id = Str(REST_ALL)) =>
        IF PreV2 THEN Raised422 /\ result.url = <<>>
        ELSE ~result.ok => result.title = "Invalid Schema Query"

C6_Witness ==
    /\ Called /\ PreV2 /\ Omit
    /\ query.resource_id = Str(REST_ALL)
    /\ query.agency_id = Str("BIS") /\ query.key = Str("A.USD")
    /\ result = ClientError(422, "Validation Error",
                            "A dataflow must be provided in SDMX-REST")

(***************************************************************************)
(* C7: before v2.0.0 get_url raises 422 for the contexts data structure    *)
(* and provision agreement, and does not reject a query for its context    *)
(* when that is dataflow or all; from v2.0.0 on all four are accepted.     *)
(***************************************************************************)
ContextMsg == "context is not valid for SDMX-REST"

\* C7: the contexts get_url rejects, by version.
C7_ContextPerVersion ==
    Called =>
        IF PreV2
        THEN IF query.context \in {DATA_STRUCTURE, PROVISION_AGREEMENT}
             THEN Raised422
             ELSE /\ result.msg # ContextMsg
                  /\ \A c \in {DATAFLOW, ALL} :
                        get_url([query EXCEPT !.context = c], Ver, Omit) = result
        ELSE /\ result.msg # ContextMsg
             /\ (~result.ok => result.title = "Invalid Schema Query")

C7_Witness ==
    /\ Called /\ PreV2
    /\ query.context = PROVISION_AGREEMENT
    /\ query.resource_id = Str("CPI")
    /\ Raised422 /\ result.msg = ContextMsg

(***************************************************************************)
(* C8: in a pre-v2 URL, full or short, every agency, resource, version or  *)
(* key value "*" is rendered as all and every value "~" as latest, so no   *)
(* "*" or "~" is a path value; from v2.0.0 on "*" and "~" are rendered     *)
(* unchanged.                                                              *)
(***************************************************************************)
Keyword(val) ==
    IF val = Str(REST_ALL) THEN "all"
    ELSE IF val = Str(REST_LATEST) THEN "latest"
    ELSE val.vals[1]

PathFields == <<"context", "agency_id", "resource_id", "version", "key">>

\* What a v2 path segment shows for a field
AsWritten(q, f) == IF f = "context" THEN <<q.context>> ELSE CommaJoined(q[f])

\* C8: "*" is written all and "~" latest before v2.0.0, and both are kept
\* as they are from v2.0.0 on.
C8_WildcardKeywords ==
    (Called /\ result.ok) =>
        LET segs == PathSegments(result.url)
            path == PathOf(result.url)
        IN  IF PreV2
            THEN /\ \A i \in 1..Len(path) : path[i] \notin {REST_ALL, REST_LATEST}
                 /\ \A i \in 1..Len(path) :
                        path[i] \in {"/", ",", "data"}
                                    \cup {Keyword(query[PathFields[j]]) : j \in 2..5}
                 /\ ~Omit =>
                        /\ segs[2] = <<Keyword(query.agency_id), ",",
                                       Keyword(query.resource_id), ",",
                                       Keyword(query.version)>>
                        /\ segs[3] = <<Keyword(query.key)>>
            ELSE \A i \in 2..Len(segs) : segs[i] = AsWritten(query, PathFields[i - 1])

(***************************************************************************)
(* C9: in a short URL of v2.0.0 or later, over context > agency >          *)
(* resource > version > key, a segment is rendered if and only if its      *)
(* field or a more specific one is not the default; a rendered segment of  *)
(* a default field shows the wildcard, so the segments are a prefix of     *)
(* the hierarchy without gaps, and the default query renders /data alone.  *)
(***************************************************************************)
NotDefault(q, i) == q[PathFields[i]] # DefaultQuery[PathFields[i]]

\* The most specific field that is not the default, 0 when there is none
MostSpecific(q) ==
    IF \E i \in 1..5 : NotDefault(q, i)
    THEN CHOOSE i \in 1..5 :
            NotDefault(q, i) /\ \A j \in (i + 1)..5 : ~NotDefault(q, j)
    ELSE 0

\* C9: the short v2 path ends at the most specific field that is not the
\* default and shows "*" for the defaults before it.
C9_ShortPathIsPrefix ==
    (Short /\ ~PreV2) =>
        LET segs == PathSegments(result.url)
        IN  /\ segs[1] = <<"data">>
            /\ Len(segs) = 1 + MostSpecific(query)
            /\ \A i \in 1..MostSpecific(query) :
                  /\ segs[i + 1] = AsWritten(query, PathFields[i])
                  /\ (~NotDefault(query, i) => segs[i + 1] = <<REST_ALL>>)
            /\ (query = DefaultQuery => result.url = <<"/", "data">>)

C9_Witness ==
    /\ Short /\ Ver = V2_0_0
    /\ query.key = Str("A.USD") /\ query.agency_id = Str("BIS")
    /\ PathOf(result.url) = <<"/", "data", "/", "*", "/", "BIS", "/", "*",
                              "/", "*", "/", "A.USD">>

(***************************************************************************)
(* C10: from v2.0.0 on attributes and measures are two comma-joined        *)
(* parameters: there is no detail parameter, no combination of attributes  *)
(* and measures makes get_url raise, a full URL carries attributes= and    *)
(* measures= followed by includeHistory=, and a short URL carries          *)
(* attributes= only when attributes is not dsd and measures= only when     *)
(* measures is not all.                                                    *)
(***************************************************************************)
\* C10: the attributes and measures parameters of a v2 URL.
C10_AttributesAndMeasures ==
    (Called /\ ~PreV2) =>
        /\ (~result.ok => result.title = "Invalid Schema Query")
        /\ result.ok =>
              LET ps == ParamsOf(result.url)
                  names == ParamNames(ps)
                  n == Len(names)
              IN  /\ ~HasParam(ps, "detail")
                  /\ \A name \in {"attributes", "measures"} :
                        HasParam(ps, name) =>
                            ParamValue(ps, name) = CommaJoined(query[name])
                  /\ ~Omit =>
                        /\ n >= 3
                        /\ SubSeq(names, n - 2, n)
                              = <<"attributes", "measures", "includeHistory">>
                        /\ ParamValue(ps, "includeHistory")
                              = <<BoolLower(query.include_history)>>
                  /\ Omit =>
                        /\ HasParam(ps, "attributes")
                              <=> query.attributes # Str("dsd")
                        /\ HasParam(ps, "measures")
                              <=> query.measures # Str("all")

C10_Witness ==
    /\ Short /\ Ver = V2_0_0
    /\ query.attributes.list /\ query.measures = Str("all")
    /\ result.url = <<"/", "data", "?", "attributes", "=", "CONF", ",", "UNIT">>

(***************************************************************************)
(* C11: omit_defaults does not change whether get_url fails: the short     *)
(* call raises if and only if the full call raises, with the same 422      *)
(* error; before v2.0.0 a short query whose attributes and measures have   *)
(* no detail raises like the full query instead of omitting the parameter. *)
(***************************************************************************)
C11_SameFailureInBothModes ==
    Called =>
        LET other == get_url(query, Ver, ~Omit)
        IN  /\ result.ok <=> other.ok
            /\ ~result.ok =>
                  /\ result.code = 422
                  /\ result = other
            /\ (PreV2 /\ validate_query(query, Ver).ok
                   /\ get_v1_detail(query, Ver).raised) => result = DetailError

C11_Witness ==
    /\ Called /\ Omit /\ PreV2
    /\ query.resource_id = Str("CPI")
    /\ query.attributes = Str("msd") /\ query.measures = Str("all")
    /\ result = DetailError
    /\ get_url(query, Ver, FALSE) = DetailError

(***************************************************************************)
(* C12: before v2.0.0 every URL get_url returns in short mode is not       *)
(* empty, starts with /data/ and names in its first segment after /data a  *)
(* resource id that is not the wildcard; the fallbacks of the short path   *)
(* builder, the empty string and /data/all,all,latest/{key}, are not       *)
(* reached, because validation rejects the wildcard resource_id first.     *)
(***************************************************************************)
\* The resource of a flow reference "resource", "agency,resource" or
\* "agency,resource,version"
FlowResource(flow) ==
    LET parts == SplitOn(flow, ",")
    IN  IF Len(parts) = 1 THEN parts[1] ELSE parts[2]

\* C12: what a short pre-v2 URL starts with.
C12_ShortV1NamesResource ==
    (Short /\ PreV2) =>
        LET url == result.url
            segs == PathSegments(url)
        IN  /\ url # <<>>
            /\ Len(url) >= 4
            /\ SubSeq(url, 1, 3) = <<"/", "data", "/">>
            /\ Len(segs) >= 2
            /\ query.resource_id # Str(REST_ALL)
            /\ FlowResource(segs[2]) # <<REST_ALL>>
            /\ FlowResource(segs[2]) = <<Kw(query.resource_id.vals[1], Ver)>>

C12_Witness ==
    /\ Short /\ Ver = V1_5_0
    /\ query.resource_id = Str("CPI")
    /\ result.url = <<"/", "data", "/", "CPI">>

====
